---- MODULE Spec2Model ----
(***************************************************************************)
(* A model of the request handlers and the page of the AI model ranker:    *)
(*   - the Generate handler (app/api/generate/route.ts): fan-out of one    *)
(*     prompt to the requested models through the model gateway;           *)
(*   - the Evaluate handler (app/api/evaluate): cross-evaluation, score    *)
(*     aggregation, top-three selection and the referee's final ranking;   *)
(*   - the reply parser the evaluator and the referee share;               *)
(*   - the page component Home, the client that sends the two requests.    *)
(*                                                                         *)
(* Text is a sequence: a response string is a sequence of string           *)
(* fragments (concatenation is \o, '' is << >>), a provider's reply text   *)
(* is a sequence of tokens.                                                *)
(***************************************************************************)
EXTENDS Integers, Sequences, FiniteSets, TLC

VARIABLES
    \* ---- Generate handler ----
    gPc,          \* "idle" | "waiting" (inside Promise.all) | "done"
    gModels,      \* body.models of the request being served
    gOutcome,     \* per requested entry: what the provider did (NoOutcome while pending)
    gSlots,       \* Promise.all's values array: per input promise, its settled value
    gPayload,     \* the JSON payload the handler returned
    \* ---- Evaluate handler ----
    ePc,          \* "idle" | "evaluating" | "ranking" | "done"
    eResponses,   \* body.responses of the request being served
    eOutcome,     \* per evaluator: the provider's reply (NoOutcome while pending)
    evaluations,  \* per evaluator: {evaluator, evaluation} once settled
    averageScores,\* the averageScores array (sorted in place by the top-three step)
    topThree,     \* averageScores.sort(...).slice(0, 3)
    refOutcome,   \* the referee's reply
    refModel,     \* the provider model the ranking call was sent to
    ePayload,     \* the JSON payload the handler returned
    \* ---- reply parser, driven on its own ----
    pPc,          \* "idle" | "ready" | "matched" | "parsed"
    pText,        \* the reply text
    pEmbedded,    \* the JSON object the reply was built around
    pMatch,       \* result.match(/\{[\s\S]*\}/)
    pResult,      \* what the parsing step returned
    \* ---- page component Home: its useState cells ----
    selectedModels, \* ids of the selected models, in the order they were selected
    prompt,         \* the textarea's value, a sequence of characters
    images,         \* data URLs of the uploaded images
    loading,        \* a generate request is under way
    evaluating,     \* an evaluate request is under way
    responses,      \* the {model, response} list shown
    evaluation,     \* the evaluation shown (NoEvaluation for null)
    userChoice,     \* the model the user picked as best ("" for none)
    \* ---- the page's requests in flight ----
    genRequest,     \* the body of the pending fetch('/api/generate')
    evalRequest     \* the body of the pending fetch('/api/evaluate')

gvars == <<gPc, gModels, gOutcome, gSlots, gPayload>>
evars == <<ePc, eResponses, eOutcome, evaluations, averageScores, topThree,
           refOutcome, refModel, ePayload>>
pvars == <<pPc, pText, pEmbedded, pMatch, pResult>>
hvars == <<selectedModels, prompt, images, loading, evaluating, responses,
           evaluation, userChoice, genRequest, evalRequest>>
vars == <<gvars, evars, pvars, hvars>>

-----------------------------------------------------------------------------
(* Bounds of the model *)

\* longest models list of a Generate request
MaxModels == 3

\* longest run of prose before or after the JSON object of a reply
MaxProse == 2

\* longest responses list of an Evaluate request
MaxResponses == 5

-----------------------------------------------------------------------------
(* Identifiers *)

\* the ids of AVAILABLE_MODELS, in its order
AVAILABLE_MODELS ==
    <<"claude-3.5-sonnet", "gpt-4o", "gpt-4o-mini", "gemini-1.5-pro", "gemini-1.5-flash">>

ModelIds == {AVAILABLE_MODELS[i] : i \in DOMAIN AVAILABLE_MODELS}

\* an identifier none of the switch statements knows
UnsupportedId == "llama-3"

RequestIds == ModelIds \cup {UnsupportedId}

\* messages of the errors a provider SDK throws
ErrMsgs == {"401 invalid api key"}

\* what `error instanceof Error ? error.message : 'Unknown error'` yields
ErrorText(thrown) == IF thrown.isError THEN thrown.msg ELSE "Unknown error"

Range(s) == {s[i] : i \in DOMAIN s}

SeqsUpTo(S, n) == UNION {[1..k -> S] : k \in 0..n}

-----------------------------------------------------------------------------
(* Model gateway: generateWithClaude / generateWithGPT4 / generateWithGemini *)

\* What a provider call does: it throws (an Error with a message, or some
\* other value), or it replies.  A reply is "text" (a text block / a message
\* content / response.text()), "nontext" (Claude: a first block that is not
\* text; OpenAI: a null content) or "empty" (no content block / no choice).
NoOutcome == [kind |-> "none", isError |-> FALSE, msg |-> "", text |-> <<>>]

Thrown(isErr, m) == [kind |-> "throw", isError |-> isErr, msg |-> m, text |-> <<>>]

Replied(k, t) == [kind |-> k, isError |-> FALSE, msg |-> "", text |-> t]

GenTexts == {<<"Gravity is...">>}

Throws == {Thrown(TRUE, m) : m \in ErrMsgs} \cup {Thrown(FALSE, "")}

\* anthropic.messages.create: throws, or a message whose content is empty,
\* starts with a text block, or starts with another block
ClaudeOutcomes ==
    Throws \cup {Replied("text", t) : t \in GenTexts}
           \cup {Replied("nontext", <<>>), Replied("empty", <<>>)}

\* openai.chat.completions.create: throws, or choices with a content or without
OpenAIOutcomes == Throws \cup {Replied("text", t) : t \in GenTexts} \cup {Replied("empty", <<>>)}

\* generateContent / response.text(): throws, or a text
GeminiOutcomes == Throws \cup {Replied("text", t) : t \in GenTexts}

\* a settled async call: a value, or a rejection
Resolved(v) == [rejected |-> FALSE, value |-> v]

Rejected(thrown) == [rejected |-> TRUE, value |-> <<ErrorText(thrown)>>]

\* the `catch` of every gateway function
ErrorString(thrown) == <<"Error: ", ErrorText(thrown)>>

\* reading content[0].type of an empty content array
TypeErrorOfUndefined == Thrown(TRUE, "Cannot read properties of undefined")

generateWithClaude(o) ==
    CASE o.kind = "throw"   -> Resolved(ErrorString(o))
      [] o.kind = "empty"   -> Resolved(ErrorString(TypeErrorOfUndefined))
      [] o.kind = "text"    -> Resolved(o.text)
      [] OTHER              -> Resolved(<<>>)

\* response.choices[0]?.message?.content || ''
generateWithGPT4(o) ==
    CASE o.kind = "throw"   -> Resolved(ErrorString(o))
      [] o.kind = "text"    -> Resolved(o.text)
      [] OTHER              -> Resolved(<<>>)

generateWithGemini(o) ==
    CASE o.kind = "throw"   -> Resolved(ErrorString(o))
      [] OTHER              -> Resolved(o.text)

\* the inline gpt-4o-mini branch of generateWithModel, its try/catch dropped
MiniNoCatch(o) ==
    CASE o.kind = "throw"   -> Rejected(o)
      [] o.kind = "text"    -> Resolved(o.text)
      [] OTHER              -> Resolved(<<>>)

generateWithMini(o) ==
    CASE o.kind = "throw"   -> Resolved(ErrorString(o))
      [] o.kind = "text"    -> Resolved(o.text)
      [] OTHER              -> Resolved(<<>>)

generateWithModel(model, o) ==
    CASE model = "claude-3.5-sonnet" -> generateWithClaude(o)
      [] model = "gpt-4o"            -> generateWithGPT4(o)
      [] model = "gemini-1.5-pro"    -> generateWithGemini(o)
      [] model = "gemini-1.5-flash"  -> generateWithGemini(o)
      [] model = "gpt-4o-mini"       -> generateWithMini(o)
      [] OTHER                       -> Resolved(<<"Model not supported">>)

\* the outcomes a call for `model` can have: an unsupported id calls no provider
OutcomesFor(model) ==
    CASE model = "claude-3.5-sonnet"            -> ClaudeOutcomes
      [] model \in {"gpt-4o", "gpt-4o-mini"}    -> OpenAIOutcomes
      [] model \in {"gemini-1.5-pro", "gemini-1.5-flash"} -> GeminiOutcomes
      [] OTHER                                  -> {Replied("nocall", <<>>)}

-----------------------------------------------------------------------------
(* Generate handler: POST of app/api/generate/route.ts *)

\* an input promise of Promise.all: pending, resolved with the callback's
\* {model, response} object, or rejected
Pending == [rejected |-> FALSE, model |-> "<pending>", response |-> <<>>]

\* async (model) => ({ model, response: await generateWithModel(model, prompt, images) })
GenerateCallback(model, o) ==
    LET r == generateWithModel(model, o)
    IN  IF r.rejected
        THEN [rejected |-> TRUE, model |-> "<rejected>", response |-> r.value]
        ELSE [rejected |-> FALSE, model |-> model, response |-> r.value]

NoPayload == [status |-> 0, results |-> <<>>, error |-> ""]

\* NextResponse.json({ results })
ResultsPayload(results) == [status |-> 200, results |-> results, error |-> ""]

\* NextResponse.json({ error }, { status: 500 })
ErrorPayload(msg) == [status |-> 500, results |-> <<>>, error |-> msg]

IsPending(slot) == slot = Pending

\* a values array filled in completion order instead of by index
StoreByCompletion(slots, i, v) ==
    LET k == CHOOSE j \in DOMAIN slots :
                 IsPending(slots[j]) /\ \A h \in 1..(j - 1) : ~IsPending(slots[h])
    IN  [slots EXCEPT ![k] = v]

\* Promise.all: the value of input promise i is stored at index i
PromiseAllStore(slots, i, v) == [slots EXCEPT ![i] = v]

AnyRejected(slots) == \E i \in DOMAIN slots : slots[i].rejected

AllSettled(outcome, none) == \A i \in DOMAIN outcome : outcome[i] # none

\* the request arrives; models.map starts one async callback per entry
GeneratePOST(models) ==
    /\ gPc = "idle"
    /\ gPc' = "waiting"
    /\ gModels' = models
    /\ gOutcome' = [i \in DOMAIN models |-> NoOutcome]
    /\ gSlots' = [i \in DOMAIN models |-> Pending]
    /\ UNCHANGED <<gPayload, evars, pvars, hvars>>

\* the provider call of entry i completes and its callback settles
GatewayReturns(i, o) ==
    /\ gPc = "waiting"
    /\ i \in DOMAIN gModels
    /\ gOutcome[i] = NoOutcome
    /\ gOutcome' = [gOutcome EXCEPT ![i] = o]
    /\ gSlots' = PromiseAllStore(gSlots, i, GenerateCallback(gModels[i], o))
    /\ UNCHANGED <<gPc, gModels, gPayload, evars, pvars, hvars>>

\* Promise.all settles: with a rejection as soon as there is one, with all the
\* values once every callback has resolved; the handler responds
GenerateRespond ==
    /\ gPc = "waiting"
    /\ AnyRejected(gSlots) \/ AllSettled(gOutcome, NoOutcome)
    /\ gPayload' =
         IF AnyRejected(gSlots)
         THEN ErrorPayload((CHOOSE s \in Range(gSlots) : s.rejected).response[1])
         ELSE ResultsPayload([i \in DOMAIN gSlots |->
                                 [model |-> gSlots[i].model, response |-> gSlots[i].response]])
    /\ gPc' = "done"
    /\ UNCHANGED <<gModels, gOutcome, gSlots, evars, pvars, hvars>>

GenNext ==
    \/ \E models \in SeqsUpTo(RequestIds, MaxModels) : GeneratePOST(models)
    \/ \E i \in 1..MaxModels : \E o \in OutcomesFor(IF i \in DOMAIN gModels THEN gModels[i] ELSE UnsupportedId) :
          GatewayReturns(i, o)
    \/ GenerateRespond

-----------------------------------------------------------------------------
(* Reply text and JSON values *)

\* A reply text is a sequence of tokens.  A token is a brace or a bracket, a
\* word of prose, or a JSON lexeme: a key with its colon ("scores":), a
\* number, a string literal, null.  Commas and white space are left out.
Tok(k, str, num) == [k |-> k, s |-> str, n |-> num]

LB == Tok("{", "", 0)

RB == Tok("}", "", 0)

LS == Tok("[", "", 0)

RS == Tok("]", "", 0)

Word(w) == Tok("word", w, 0)

Key(name) == Tok("key", name, 0)

NumTok(x) == Tok("num", "", x)

StrTok(str) == Tok("str", str, 0)

NullTok == Tok("null", "", 0)

\* A JSON value (and JavaScript's undefined, for a missing property).  An
\* object is its keys and, at the same positions, their values.
JV(t, num, str, keys, items) ==
    [t |-> t, n |-> num, s |-> str, keys |-> keys, items |-> items]

Undefined == JV("undefined", 0, "", <<>>, <<>>)

JNull == JV("null", 0, "", <<>>, <<>>)

JNum(x) == JV("num", x, "", <<>>, <<>>)

JStr(str) == JV("str", 0, str, <<>>, <<>>)

JArr(items) == JV("arr", 0, "", <<>>, items)

JObj(keys, items) == JV("obj", 0, "", keys, items)

\* obj.key: the property of an object, undefined when it has none (or when
\* the value is a number, a string or an array, which have no such property)
Get(v, key) ==
    IF v.t = "obj" /\ \E i \in DOMAIN v.keys : v.keys[i] = key
    THEN v.items[CHOOSE i \in DOMAIN v.keys : v.keys[i] = key]
    ELSE Undefined

\* JavaScript truthiness of a JSON value
Truthy(v) ==
    CASE v.t \in {"undefined", "null"} -> FALSE
      [] v.t = "num"                   -> v.n # 0
      [] v.t = "str"                   -> v.s # ""
      [] OTHER                         -> TRUE

\* the text of a JSON value
RECURSIVE Serialize(_)
RECURSIVE SerializeItems(_)
RECURSIVE SerializeMembers(_, _)
Serialize(v) ==
    CASE v.t = "num"  -> <<NumTok(v.n)>>
      [] v.t = "str"  -> <<StrTok(v.s)>>
      [] v.t = "null" -> <<NullTok>>
      [] v.t = "arr"  -> <<LS>> \o SerializeItems(v.items) \o <<RS>>
      [] v.t = "obj"  -> <<LB>> \o SerializeMembers(v.keys, v.items) \o <<RB>>
      [] OTHER        -> <<>>

SerializeItems(items) ==
    IF items = <<>> THEN <<>>
    ELSE Serialize(Head(items)) \o SerializeItems(Tail(items))

SerializeMembers(keys, items) ==
    IF keys = <<>> THEN <<>>
    ELSE <<Key(Head(keys))>> \o Serialize(Head(items))
             \o SerializeMembers(Tail(keys), Tail(items))

\* JSON.parse: a recursive descent over the tokens
ParseOk(v, rest) == [ok |-> TRUE, v |-> v, rest |-> rest]

ParseFail == [ok |-> FALSE, v |-> Undefined, rest |-> <<>>]

\* a repeated key keeps its first position and takes the last value
SetMember(obj, key, v) ==
    IF \E i \in DOMAIN obj.keys : obj.keys[i] = key
    THEN JObj(obj.keys, [i \in DOMAIN obj.items |->
                            IF obj.keys[i] = key THEN v ELSE obj.items[i]])
    ELSE JObj(Append(obj.keys, key), Append(obj.items, v))

RECURSIVE ParseValue(_)
RECURSIVE ParseElements(_, _)
RECURSIVE ParseMembers(_, _)
ParseValue(toks) ==
    IF toks = <<>> THEN ParseFail
    ELSE LET h == Head(toks)
         IN  CASE h.k = "num"  -> ParseOk(JNum(h.n), Tail(toks))
               [] h.k = "str"  -> ParseOk(JStr(h.s), Tail(toks))
               [] h.k = "null" -> ParseOk(JNull, Tail(toks))
               [] h.k = "["    -> ParseElements(Tail(toks), <<>>)
               [] h.k = "{"    -> ParseMembers(Tail(toks), JObj(<<>>, <<>>))
               [] OTHER        -> ParseFail

ParseElements(toks, acc) ==
    IF toks = <<>> THEN ParseFail
    ELSE IF Head(toks).k = "]" THEN ParseOk(JArr(acc), Tail(toks))
    ELSE LET r == ParseValue(toks)
         IN  IF r.ok THEN ParseElements(r.rest, Append(acc, r.v)) ELSE ParseFail

ParseMembers(toks, obj) ==
    IF toks = <<>> THEN ParseFail
    ELSE IF Head(toks).k = "}" THEN ParseOk(obj, Tail(toks))
    ELSE IF Head(toks).k = "key"
    THEN LET r == ParseValue(Tail(toks))
         IN  IF r.ok THEN ParseMembers(r.rest, SetMember(obj, Head(toks).s, r.v))
             ELSE ParseFail
    ELSE ParseFail

\* JSON.parse(text): the value, or a thrown SyntaxError
SyntaxError == Thrown(TRUE, "Unexpected token in JSON")

JSONParse(toks) ==
    LET r == ParseValue(toks)
    IN  IF r.ok /\ r.rest = <<>>
        THEN [ok |-> TRUE, v |-> r.v]
        ELSE [ok |-> FALSE, v |-> Undefined]

\* text.match(/\{[\s\S]*\}/): null (here << >>) or the matched text
NoMatch == <<>>

Positions(text, k) == {i \in DOMAIN text : text[i].k = k}

Min(S) == CHOOSE x \in S : \A y \in S : x <= y

Max(S) == CHOOSE x \in S : \A y \in S : x >= y

\* the leftmost match, [\s\S]* greedy: from the first opening brace to the
\* last closing brace of the text
RegexMatch(text) ==
    LET opens  == Positions(text, "{")
        closes == Positions(text, "}")
    IN  IF opens = {} \/ closes = {} \/ Max(closes) < Min(opens)
        THEN NoMatch
        ELSE SubSeq(text, Min(opens), Max(closes))

\* the tail both evaluateWithModel and finalRankingWithGemini share:
\*   const jsonMatch = text.match(...); if (jsonMatch) return JSON.parse(jsonMatch[0]);
\*   return { <key>: [] };   } catch (error) { return { <key>: [], error: message } }
EmptyResult(key) == JObj(<<key>>, <<JArr(<<>>)>>)

ErrorResult(key, thrown) ==
    JObj(<<key, "error">>, <<JArr(<<>>), JStr(ErrorText(thrown))>>)

ParseMatched(m, key) ==
    IF m # NoMatch
    THEN IF JSONParse(m).ok THEN JSONParse(m).v ELSE ErrorResult(key, SyntaxError)
    ELSE EmptyResult(key)

ExtractJSON(text, key) == ParseMatched(RegexMatch(text), key)

\* the entries the prompts ask for
ScoreEntry(model, score) ==
    JObj(<<"model", "score", "reasoning">>, <<JStr(model), JNum(score), JStr("ok")>>)

RankEntry(rank, model) ==
    JObj(<<"rank", "model", "reasoning">>, <<JNum(rank), JStr(model), JStr("why")>>)

ScoresObject(entries) == JObj(<<"scores">>, <<JArr(entries)>>)

RankingObject(entries) == JObj(<<"ranking">>, <<JArr(entries)>>)

-----------------------------------------------------------------------------
(* The reply parser on its own: a reply built as prose, one JSON object, prose *)

\* the objects a reply is built around
EmbeddedObjects ==
    { JObj(<<>>, <<>>),
      ScoresObject(<<>>),
      ScoresObject(<<ScoreEntry("gpt-4o", 77)>>),
      ScoresObject(<<ScoreEntry("gpt-4o", 77), ScoreEntry("gemini-1.5-pro", 90)>>),
      RankingObject(<<RankEntry(1, "gpt-4o")>>),
      JObj(<<"scores">>, <<JNum(5)>>) }

\* prose before the object: words and closing braces (no opening brace, so
\* that the object is the first one of the text)
ProseBefore == SeqsUpTo({Word("Sure"), RB}, MaxProse)

\* prose after the object: words, braces, or a further JSON object
ProseAfter ==
    SeqsUpTo({Word("Hope"), LB, RB}, MaxProse)
    \cup {<<Word("or")>> \o Serialize(o) : o \in EmbeddedObjects}

ParserInit ==
    /\ pPc = "ready"
    /\ \E pre \in ProseBefore, obj \in EmbeddedObjects, post \in ProseAfter :
          /\ pText = pre \o Serialize(obj) \o post
          /\ pEmbedded = obj
    /\ pMatch = NoMatch
    /\ pResult = Undefined

\* const jsonMatch = text.match(/\{[\s\S]*\}/)
ParserMatch ==
    /\ pPc = "ready"
    /\ pMatch' = RegexMatch(pText)
    /\ pPc' = "matched"
    /\ UNCHANGED <<pText, pEmbedded, pResult, gvars, evars, hvars>>

\* if (jsonMatch) return JSON.parse(jsonMatch[0]); ... and the catch around it
ParserParse(key) ==
    /\ pPc = "matched"
    /\ pResult' = ParseMatched(pMatch, key)
    /\ pPc' = "parsed"
    /\ UNCHANGED <<pText, pEmbedded, pMatch, gvars, evars, hvars>>

ParserNext ==
    \/ ParserMatch
    \/ \E key \in {"scores", "ranking"} : ParserParse(key)


-----------------------------------------------------------------------------
(* Cross-evaluator and referee: evaluateWithModel, finalRankingWithGemini *)

Threw(thrown) == [threw |-> TRUE, err |-> thrown, text |-> <<>>]

Text(t) == [threw |-> FALSE, err |-> NoOutcome, text |-> t]

\* the switch of evaluateWithModel: `result` after the provider call, or the
\* error thrown inside the try; no case matches an unsupported id and result
\* stays ''
ProviderResult(model, o) ==
    CASE model = "claude-3.5-sonnet" ->
            CASE o.kind = "throw" -> Threw(o)
              [] o.kind = "empty" -> Threw(TypeErrorOfUndefined)
              [] o.kind = "text"  -> Text(o.text)
              [] OTHER            -> Text(<<>>)
      [] model \in {"gpt-4o", "gpt-4o-mini"} ->
            CASE o.kind = "throw" -> Threw(o)
              [] o.kind = "text"  -> Text(o.text)
              [] OTHER            -> Text(<<>>)
      [] model \in {"gemini-1.5-pro", "gemini-1.5-flash"} ->
            CASE o.kind = "throw" -> Threw(o)
              [] OTHER            -> Text(o.text)
      [] OTHER -> Text(<<>>)

evaluateWithModel(model, o) ==
    LET r == ProviderResult(model, o)
    IN  IF r.threw THEN ErrorResult("scores", r.err) ELSE ExtractJSON(r.text, "scores")

\* genAI.getGenerativeModel({ model: 'gemini-1.5-pro' })
RefereeModel == "gemini-1.5-pro"

finalRankingWithGemini(o) ==
    LET r == ProviderResult(RefereeModel, o)
    IN  IF r.threw THEN ErrorResult("ranking", r.err) ELSE ExtractJSON(r.text, "ranking")

-----------------------------------------------------------------------------
(* Aggregation: scoreMap, averageScores, topThree *)

\* A number that is a quotient of two integers, in lowest terms; den = 0 is
\* NaN (0 / 0).  The scores are small integers, so the double sum / length is
\* equal for equal quotients and differs for different ones.
RECURSIVE GCD(_, _)
GCD(a, b) == IF b = 0 THEN a ELSE GCD(b, a % b)

Quotient(a, b) ==
    IF b = 0 THEN [num |-> 0, den |-> 0]
    ELSE [num |-> a \div GCD(a, b), den |-> b \div GCD(a, b)]

RECURSIVE Sum(_)
Sum(xs) == IF xs = <<>> THEN 0 ELSE Head(xs) + Sum(Tail(xs))

\* sum / length without the guard for an empty list
MeanUnguarded(xs) == Quotient(Sum(xs), Len(xs))

\* length > 0 ? reduce((a, b) => a + b, 0) / length : 0
Mean(xs) == IF Len(xs) > 0 THEN Quotient(Sum(xs), Len(xs)) ELSE Quotient(0, 1)

\* the sign of x - y
Sign(x, y) ==
    LET d == x.num * y.den - y.num * x.den
    IN  IF d > 0 THEN 1 ELSE IF d < 0 THEN -1 ELSE 0

\* the key of a score entry taken from the evaluator instead of the entry
KeyOfEvaluator(ev, item) == JStr(ev.evaluator)

\* score.model
KeyOf(ev, item) == Get(item, "model")

\* scoreMap.has(key): the keys are the model strings of the responses
Has(scoreMap, key) == key.t = "str" /\ key.s \in DOMAIN scoreMap

\* ev.evaluation.scores.forEach(score => { if (scoreMap.has(score.model)) ...push(score.score) })
RECURSIVE PushScores(_, _, _)
PushScores(scoreMap, ev, items) ==
    IF items = <<>> THEN scoreMap
    ELSE LET item == Head(items)
             key  == KeyOf(ev, item)
         IN  PushScores(
                 IF Has(scoreMap, key)
                 THEN [scoreMap EXCEPT ![key.s] = Append(@, Get(item, "score").n)]
                 ELSE scoreMap,
                 ev, Tail(items))

\* evaluations.forEach(ev => { if (ev.evaluation.scores) { ... } })
RECURSIVE CollectScores(_, _)
CollectScores(scoreMap, evs) ==
    IF evs = <<>> THEN scoreMap
    ELSE LET scores == Get(Head(evs).evaluation, "scores")
         IN  CollectScores(
                 IF Truthy(scores) THEN PushScores(scoreMap, Head(evs), scores.items)
                 ELSE scoreMap,
                 Tail(evs))

\* The TypeError the two loops can raise, "" when they raise none: a truthy
\* `scores` that is not an array has no forEach, and reading .model of a null
\* entry throws.  The first evaluation that raises decides the message.
RaisesIn(ev) ==
    LET scores == Get(ev.evaluation, "scores")
    IN  Truthy(scores) /\ (scores.t # "arr" \/ \E j \in DOMAIN scores.items : scores.items[j].t = "null")

AggregationError(evs) ==
    IF \A i \in DOMAIN evs : ~RaisesIn(evs[i]) THEN ""
    ELSE LET first == Min({i \in DOMAIN evs : RaisesIn(evs[i])})
         IN  IF Get(evs[first].evaluation, "scores").t # "arr"
             THEN "ev.evaluation.scores.forEach is not a function"
             ELSE "Cannot read properties of null (reading 'model')"

\* responses.forEach(r => scoreMap.set(r.model, []))
NewScoreMap(resps) == [m \in {resps[i].model : i \in DOMAIN resps} |-> <<>>]

\* const averageScores = responses.map(r => ({ model, response, avgScore, scores }))
AverageScores(resps, scoreMap) ==
    [i \in DOMAIN resps |->
        [model    |-> resps[i].model,
         response |-> resps[i].response,
         avgScore |-> Mean(scoreMap[resps[i].model]),
         scores   |-> scoreMap[resps[i].model]]]

\* the comparator (a, b) => b.avgScore - a.avgScore
Compare(a, b) == Sign(b.avgScore, a.avgScore)

\* an insertion that puts x before the entries it compares equal to
RECURSIVE InsertBeforeEqual(_, _)
InsertBeforeEqual(sorted, x) ==
    IF sorted = <<>> THEN <<x>>
    ELSE IF Compare(Head(sorted), x) < 0
         THEN <<Head(sorted)>> \o InsertBeforeEqual(Tail(sorted), x)
         ELSE <<x>> \o sorted

\* Array.prototype.sort is stable: x goes after every entry that does not
\* compare greater than it
RECURSIVE Insert(_, _)
Insert(sorted, x) ==
    IF sorted = <<>> THEN <<x>>
    ELSE IF Compare(Head(sorted), x) <= 0
         THEN <<Head(sorted)>> \o Insert(Tail(sorted), x)
         ELSE <<x>> \o sorted

RECURSIVE SortFrom(_, _)
SortFrom(sorted, rest) ==
    IF rest = <<>> THEN sorted ELSE SortFrom(Insert(sorted, Head(rest)), Tail(rest))

\* an ascending sort: (a, b) => a.avgScore - b.avgScore
RECURSIVE Reverse(_)
Reverse(xs) == IF xs = <<>> THEN <<>> ELSE Append(Reverse(Tail(xs)), Head(xs))

SortAscending(xs) == Reverse(SortFrom(<<>>, xs))

\* averageScores.sort((a, b) => b.avgScore - a.avgScore)
Sort(xs) == SortFrom(<<>>, xs)

\* .slice(0, 3)
Slice3(xs) == SubSeq(xs, 1, IF Len(xs) < 3 THEN Len(xs) ELSE 3)

-----------------------------------------------------------------------------
(* Evaluate handler: POST of app/api/evaluate/route.ts *)

\* the texts of the generated responses, by position
AnswerTexts == <<"answer-1", "answer-2", "answer-3", "answer-4", "answer-5", "answer-6">>

\* the models of a long request: the available ones, then an unsupported id
EvaluatorPool == AVAILABLE_MODELS \o <<UnsupportedId>>

ResponsesOf(models) ==
    [i \in DOMAIN models |-> [model |-> models[i], response |-> <<AnswerTexts[i]>>]]

\* The requests served: the first n available models for every n up to
\* MaxResponses, a request naming an unsupported model, one naming a model twice.
EvalRequests ==
    {ResponsesOf(SubSeq(EvaluatorPool, 1, n)) : n \in 0..MaxResponses}
    \cup {ResponsesOf(<<"gpt-4o", UnsupportedId>>),
          ResponsesOf(<<"gpt-4o", "gemini-1.5-flash", "gpt-4o">>)}

\* an id no response carries
GhostId == "mistral-large"

\* score lists an evaluator may return for the responses
DescendingScores(resps) ==
    [j \in DOMAIN resps |-> ScoreEntry(resps[j].model, 100 - 10 * (j - 1))]

AscendingScores(resps) ==
    [j \in DOMAIN resps |-> ScoreEntry(resps[j].model, 60 + 10 * (j - 1))]

\* evaluator i scores the first response only
OnlyFirstScored(resps, i) == <<ScoreEntry(resps[1].model, 50 + 10 * i)>>

\* The reply texts of evaluator i: prose only; braces around prose; objects of
\* an unexpected shape; the scores object the prompt asks for, bare or wrapped
\* in prose, also with an entry for an unknown id and an entry that is a number.
EvaluatorTexts(resps, i) ==
    { <<Word("Sorry")>>,
      <<LB, Word("scores"), RB>>,
      Serialize(JObj(<<>>, <<>>)),
      Serialize(JObj(<<"scores">>, <<JNum(5)>>)),
      Serialize(ScoresObject(<<JNull>>)),
      <<Word("Sure")>> \o Serialize(ScoresObject(DescendingScores(resps))) \o <<Word("Hope")>>,
      Serialize(ScoresObject(<<JNum(5), ScoreEntry(GhostId, 100)>> \o AscendingScores(resps))),
      Serialize(ScoresObject(OnlyFirstScored(resps, i))) }

EvaluatorOutcomes(resps, i) ==
    IF resps[i].model \in ModelIds
    THEN {Thrown(TRUE, m) : m \in ErrMsgs}
         \cup {Replied("text", t) : t \in EvaluatorTexts(resps, i)}
    ELSE {Replied("nocall", <<>>)}

\* rankings the referee may return for the top entries
RankingInOrder(top) == [j \in DOMAIN top |-> RankEntry(j, top[j].model)]

RefereeTexts(top) ==
    { <<Word("Sorry")>>,
      <<LB, Word("ranking"), RB>>,
      Serialize(JObj(<<>>, <<>>)),
      <<Word("Sure")>> \o Serialize(RankingObject(RankingInOrder(top))),
      Serialize(RankingObject(<<RankEntry(1, GhostId), RankEntry(1, GhostId)>>)) }

RefereeOutcomes(top) ==
    {Thrown(TRUE, m) : m \in ErrMsgs} \cup {Replied("text", t) : t \in RefereeTexts(top)}

\* The replies and evaluateWithModel's result for each of them, tabulated per
\* request and evaluator (the values do not depend on the state).
OutcomesOfEvaluator ==
    [r \in EvalRequests |-> [i \in DOMAIN r |-> EvaluatorOutcomes(r, i)]]

EvaluationOf ==
    [r \in EvalRequests |-> [i \in DOMAIN r |->
        [o \in EvaluatorOutcomes(r, i) |-> evaluateWithModel(r[i].model, o)]]]

PendingEvaluation == [evaluator |-> "<pending>", evaluation |-> Undefined]

NoEvalPayload ==
    [status |-> 0, evaluations |-> <<>>, averageScores |-> <<>>, topThree |-> <<>>,
     finalRanking |-> Undefined, error |-> ""]

\* NextResponse.json({ evaluations, averageScores, topThree, finalRanking })
EvalPayload(evs, avgs, top, ranking) ==
    [status |-> 200, evaluations |-> evs, averageScores |-> avgs, topThree |-> top,
     finalRanking |-> ranking, error |-> ""]

\* NextResponse.json({ error }, { status: 500 })
EvalErrorPayload(msg) ==
    [status |-> 500, evaluations |-> <<>>, averageScores |-> <<>>, topThree |-> <<>>,
     finalRanking |-> Undefined, error |-> msg]

\* the request arrives; responses.map starts one evaluator callback per response
EvaluatePOST(resps) ==
    /\ ePc = "idle"
    /\ ePc' = "evaluating"
    /\ eResponses' = resps
    /\ eOutcome' = [i \in DOMAIN resps |-> NoOutcome]
    /\ evaluations' = [i \in DOMAIN resps |-> PendingEvaluation]
    /\ UNCHANGED <<averageScores, topThree, refOutcome, refModel, ePayload, gvars, pvars, hvars>>

\* the provider call of evaluator i completes:
\*   async (r) => ({ evaluator: r.model, evaluation: await evaluateWithModel(...) })
EvaluatorReturns(i, o) ==
    /\ ePc = "evaluating"
    /\ i \in DOMAIN eResponses
    /\ eOutcome[i] = NoOutcome
    /\ eOutcome' = [eOutcome EXCEPT ![i] = o]
    /\ evaluations' = PromiseAllStore(evaluations, i,
                          [evaluator  |-> eResponses[i].model,
                           evaluation |-> EvaluationOf[eResponses][i][o]])
    /\ UNCHANGED <<ePc, eResponses, averageScores, topThree, refOutcome, refModel,
                   ePayload, gvars, pvars, hvars>>

\* Promise.all resolves; the scores are collected and averaged, averageScores
\* is sorted in place, its first three are sliced off and the referee is
\* called.  A TypeError raised on the way goes to the handler's catch.
Aggregate ==
    /\ ePc = "evaluating"
    /\ AllSettled(eOutcome, NoOutcome)
    /\ IF AggregationError(evaluations) # ""
       THEN /\ ePayload' = EvalErrorPayload(AggregationError(evaluations))
            /\ ePc' = "done"
            /\ UNCHANGED <<averageScores, topThree, refModel>>
       ELSE LET scoreMap == CollectScores(NewScoreMap(eResponses), evaluations)
                sorted   == Sort(AverageScores(eResponses, scoreMap))
            IN  /\ averageScores' = sorted
                /\ topThree' = Slice3(sorted)
                /\ refModel' = RefereeModel
                /\ ePc' = "ranking"
                /\ UNCHANGED ePayload
    /\ UNCHANGED <<eResponses, eOutcome, evaluations, refOutcome, gvars, pvars, hvars>>

\* the referee's call completes and the handler responds
RefereeReturns(o) ==
    /\ ePc = "ranking"
    /\ refOutcome' = o
    /\ ePayload' = EvalPayload(evaluations, averageScores, topThree, finalRankingWithGemini(o))
    /\ ePc' = "done"
    /\ UNCHANGED <<eResponses, eOutcome, evaluations, averageScores, topThree, refModel,
                   gvars, pvars, hvars>>

EvalNext ==
    \/ \E resps \in EvalRequests : EvaluatePOST(resps)
    \/ \E i \in DOMAIN eResponses : \E o \in OutcomesOfEvaluator[eResponses][i] :
          EvaluatorReturns(i, o)
    \/ Aggregate
    \/ \E o \in RefereeOutcomes(topThree) : RefereeReturns(o)

-----------------------------------------------------------------------------
(* Page component: Home, the client of the two handlers *)

\* longest images list the user builds
MaxImages == 1

Blank == " "

\* String.prototype.trim
RECURSIVE TrimStart(_)
TrimStart(s) == IF s # <<>> /\ Head(s) = Blank THEN TrimStart(Tail(s)) ELSE s

RECURSIVE TrimEnd(_)
TrimEnd(s) ==
    IF s # <<>> /\ s[Len(s)] = Blank THEN TrimEnd(SubSeq(s, 1, Len(s) - 1)) ELSE s

Trim(s) == TrimEnd(TrimStart(s))

\* the values the user gives the textarea: nothing, blanks only, a padded word
Prompts == {<<>>, <<Blank, Blank>>, <<Blank, "g", Blank>>}

\* the data URL the FileReader hands to reader.onload
ImageURL == "data:image/png;base64,AAAA"

\* useState<EvaluationResult | null>(null)
NoEvaluation == NoEvalPayload

NoGenRequest == [sent |-> FALSE, models |-> <<>>, prompt |-> <<>>, images |-> <<>>]

\* JSON.stringify({ models: selectedModels, prompt, images })
GenerateBody(models, p, imgs) ==
    [sent |-> TRUE, models |-> models, prompt |-> p, images |-> imgs]

NoEvalRequest == [sent |-> FALSE, responses |-> <<>>, originalPrompt |-> <<>>]

\* JSON.stringify({ responses, originalPrompt: prompt })
EvaluateBody(resps, p) == [sent |-> TRUE, responses |-> resps, originalPrompt |-> p]

\* the updater of toggleModel
toggleModel(prev, modelId) ==
    IF modelId \in Range(prev)
    THEN SelectSeq(prev, LAMBDA m : m # modelId)
    ELSE IF Len(prev) < 5 THEN Append(prev, modelId) ELSE prev

\* prev.filter((_, i) => i !== index), index counted from 1
removeImage(prev, index) ==
    [i \in 1..(Len(prev) - 1) |-> IF i < index THEN prev[i] ELSE prev[i + 1]]

\* The model buttons the user clicks: the first one of the row that is not
\* selected, or the one selected last.  The selection is then always the
\* first n models of the row.
ToggleTargets(selected) ==
    {AVAILABLE_MODELS[i] : i \in {j \in DOMAIN AVAILABLE_MODELS :
                                      j = Len(selected) \/ j = Len(selected) + 1}}

\* a generate with fewer than 5 models selected but not fewer than 3
GenerateBlockedBelowThree(selected, p) == Len(selected) < 3 \/ Trim(p) = <<>>

\* `selectedModels.length < 4 || !prompt.trim()`: the early return of
\* handleGenerate, and with `|| loading` the generate button's disabled
GenerateBlocked(selected, p) == Len(selected) < 4 \/ Trim(p) = <<>>

GenerateDisabled == GenerateBlocked(selectedModels, prompt) \/ loading

\* the evaluate button is rendered and enabled
EvaluateClickable ==
    /\ Len(responses) > 0
    /\ evaluation = NoEvaluation
    /\ ~evaluating

\* What the providers do while one request is served: each call replies with
\* a text, or each call fails.
ProviderDays == {Replied("text", t) : t \in GenTexts} \cup {Thrown(TRUE, m) : m \in ErrMsgs}

\* data.results of the Generate handler's reply to a request for `models`
GenerateResults(models, o) ==
    [i \in DOMAIN models |->
        [model    |-> GenerateCallback(models[i], o).model,
         response |-> GenerateCallback(models[i], o).response]]

\* The Evaluate handler's reply to `resps` when every evaluator and the
\* referee get the outcome of the day: every evaluator scores the responses
\* and the referee ranks the top ones in order, or every call fails.
EvaluateReply(resps, o) ==
    LET scored == o.kind = "text"
        reply  == IF scored
                  THEN Replied("text", Serialize(ScoresObject(AscendingScores(resps))))
                  ELSE o
        evs    == [i \in DOMAIN resps |->
                      [evaluator  |-> resps[i].model,
                       evaluation |-> evaluateWithModel(resps[i].model, reply)]]
        sorted == Sort(AverageScores(resps, CollectScores(NewScoreMap(resps), evs)))
        top    == Slice3(sorted)
        ref    == IF scored
                  THEN Replied("text", Serialize(RankingObject(RankingInOrder(top))))
                  ELSE o
    IN  EvalPayload(evs, sorted, top, finalRankingWithGemini(ref))

\* the responses lists the Generate handler can return to the page
GeneratedLists ==
    {GenerateResults(SubSeq(AVAILABLE_MODELS, 1, n), o) :
        n \in 1..Len(AVAILABLE_MODELS), o \in ProviderDays}

\* the replies of the Evaluate handler, tabulated per responses list
EvaluateReplies ==
    [r \in GeneratedLists |-> {EvaluateReply(r, o) : o \in ProviderDays}]

\* the replies a pending evaluate request can get
RepliesTo(request) == IF request.sent THEN EvaluateReplies[request.responses] ELSE {}

\* onClick={() => toggleModel(model.id)}
ToggleModel(modelId) ==
    /\ selectedModels' = toggleModel(selectedModels, modelId)
    /\ UNCHANGED <<prompt, images, loading, evaluating, responses, evaluation,
                   userChoice, genRequest, evalRequest, gvars, evars, pvars>>

\* onChange={(e) => setPrompt(e.target.value)}
EditPrompt(value) ==
    /\ value # prompt
    /\ prompt' = value
    /\ UNCHANGED <<selectedModels, images, loading, evaluating, responses, evaluation,
                   userChoice, genRequest, evalRequest, gvars, evars, pvars>>

\* handleImageUpload: reader.onload of a chosen file
AddImage ==
    /\ Len(images) < MaxImages
    /\ images' = Append(images, ImageURL)
    /\ UNCHANGED <<selectedModels, prompt, loading, evaluating, responses, evaluation,
                   userChoice, genRequest, evalRequest, gvars, evars, pvars>>

\* onClick={() => removeImage(idx)}
RemoveImage(index) ==
    /\ index \in DOMAIN images
    /\ images' = removeImage(images, index)
    /\ UNCHANGED <<selectedModels, prompt, loading, evaluating, responses, evaluation,
                   userChoice, genRequest, evalRequest, gvars, evars, pvars>>

\* a click on the generate button: handleGenerate up to its fetch
handleGenerate ==
    /\ ~GenerateDisabled
    /\ IF GenerateBlocked(selectedModels, prompt)
       THEN UNCHANGED <<loading, responses, evaluation, userChoice, genRequest>>
       ELSE /\ loading' = TRUE
            /\ responses' = <<>>
            /\ evaluation' = NoEvaluation
            /\ userChoice' = ""
            /\ genRequest' = GenerateBody(selectedModels, prompt, images)
    /\ UNCHANGED <<selectedModels, prompt, images, evaluating, evalRequest,
                   gvars, evars, pvars>>

\* the generate request is answered: setResponses(data.results), then finally
GenerateResolves(o) ==
    /\ genRequest.sent
    /\ responses' = GenerateResults(genRequest.models, o)
    /\ loading' = FALSE
    /\ genRequest' = NoGenRequest
    /\ UNCHANGED <<selectedModels, prompt, images, evaluating, evaluation, userChoice,
                   evalRequest, gvars, evars, pvars>>

\* the fetch is rejected: catch (an alert), then finally
GenerateFails ==
    /\ genRequest.sent
    /\ loading' = FALSE
    /\ genRequest' = NoGenRequest
    /\ UNCHANGED <<selectedModels, prompt, images, evaluating, responses, evaluation,
                   userChoice, evalRequest, gvars, evars, pvars>>

\* a click on the evaluate button: handleEvaluate up to its fetch
handleEvaluate ==
    /\ EvaluateClickable
    /\ IF Len(responses) = 0
       THEN UNCHANGED <<evaluating, evalRequest>>
       ELSE /\ evaluating' = TRUE
            /\ evalRequest' = EvaluateBody(responses, prompt)
    /\ UNCHANGED <<selectedModels, prompt, images, loading, responses, evaluation,
                   userChoice, genRequest, gvars, evars, pvars>>

\* the evaluate request is answered: setEvaluation(data), then finally
EvaluateResolves(data) ==
    /\ evalRequest.sent
    /\ evaluation' = data
    /\ evaluating' = FALSE
    /\ evalRequest' = NoEvalRequest
    /\ UNCHANGED <<selectedModels, prompt, images, loading, responses, userChoice,
                   genRequest, gvars, evars, pvars>>

\* the fetch is rejected: catch (an alert), then finally
EvaluateFails ==
    /\ evalRequest.sent
    /\ evaluating' = FALSE
    /\ evalRequest' = NoEvalRequest
    /\ UNCHANGED <<selectedModels, prompt, images, loading, responses, evaluation,
                   userChoice, genRequest, gvars, evars, pvars>>

\* onClick={() => setUserChoice(resp.model)}: a button per response, rendered
\* with the evaluation
ChooseBest(i) ==
    /\ evaluation # NoEvaluation
    /\ i \in DOMAIN responses
    /\ userChoice # responses[i].model
    /\ userChoice' = responses[i].model
    /\ UNCHANGED <<selectedModels, prompt, images, loading, evaluating, responses,
                   evaluation, genRequest, evalRequest, gvars, evars, pvars>>

HomeNext ==
    \/ \E modelId \in ToggleTargets(selectedModels) : ToggleModel(modelId)
    \/ \E value \in Prompts : EditPrompt(value)
    \/ AddImage
    \/ \E index \in DOMAIN images : RemoveImage(index)
    \/ handleGenerate
    \/ \E o \in ProviderDays : GenerateResolves(o)
    \/ GenerateFails
    \/ handleEvaluate
    \/ \E data \in RepliesTo(evalRequest) : EvaluateResolves(data)
    \/ EvaluateFails
    \/ \E i \in DOMAIN responses : ChooseBest(i)

-----------------------------------------------------------------------------
(* Claims about the Generate handler *)

GenDone == gPc = "done"

\* C1: whatever the requested list (any length, supported or unsupported ids)
\* and whatever each provider call did, in whatever order the calls completed,
\* the handler returns the results payload with exactly one {model, response}
\* entry per requested entry, the i-th entry naming the i-th requested id.
Thm_C1_OnePerRequestedInOrder ==
    GenDone =>
        /\ gPayload.status = 200
        /\ Len(gPayload.results) = Len(gModels)
        /\ \A i \in DOMAIN gModels : gPayload.results[i].model = gModels[i]

\* a served request of several entries, with a repeated id, an unsupported id
\* and a failed provider call among them
Wit_C1 ==
    /\ GenDone
    /\ Len(gModels) >= 3
    /\ Cardinality(Range(gModels)) < Len(gModels)
    /\ UnsupportedId \in Range(gModels)
    /\ \E i \in DOMAIN gModels : gOutcome[i].kind = "throw"

\* C2: when provider calls fail, the call still succeeds with N results; a
\* failing model's response is the failure prefix followed by the error's
\* message, and every model whose provider replied with a text has exactly that
\* text as its response, whatever happened to the other calls.
Thm_C2_FailureContained ==
    GenDone =>
        /\ gPayload.status = 200
        /\ Len(gPayload.results) = Len(gModels)
        /\ \A i \in DOMAIN gModels :
              /\ gOutcome[i].kind = "throw" =>
                    /\ gPayload.results[i].response[1] = "Error: "
                    /\ Len(gPayload.results[i].response) = 2
                    /\ gOutcome[i].isError =>
                          gPayload.results[i].response[2] = gOutcome[i].msg
              /\ gOutcome[i].kind = "text" =>
                    gPayload.results[i].response = gOutcome[i].text

\* exactly one of several provider calls failed (the gpt-4o-mini one), another
\* replied with a text
Wit_C2 ==
    /\ GenDone
    /\ Len(gModels) >= 2
    /\ Cardinality({i \in DOMAIN gModels : gOutcome[i].kind = "throw"}) = 1
    /\ \E i \in DOMAIN gModels : gModels[i] = "gpt-4o-mini" /\ gOutcome[i].kind = "throw"
    /\ \E i \in DOMAIN gModels : gOutcome[i].kind = "text"

-----------------------------------------------------------------------------
(* Claims about the Evaluate handler *)

EvalDone == ePc = "done"

EvalOk == ePc = "done" /\ ePayload.status = 200

\* the entries of the scores arrays of the evaluations, in processing order
RECURSIVE ScoreItems(_)
ScoreItems(evs) ==
    IF evs = <<>> THEN <<>>
    ELSE LET scores == Get(Head(evs).evaluation, "scores")
         IN  (IF scores.t = "arr" THEN scores.items ELSE <<>>) \o ScoreItems(Tail(evs))

Names(item, model) == Get(item, "model") = JStr(model)

\* the scores the evaluators gave to `model`, in processing order
ScoresGivenTo(model, evs) ==
    LET named == SelectSeq(ScoreItems(evs), LAMBDA item : Names(item, model))
    IN  [k \in DOMAIN named |-> Get(named[k], "score").n]

Zero == [num |-> 0, den |-> 1]

IsNumber(q) == q.den > 0

\* q = total / count
IsQuotientOf(q, total, count) == q.den > 0 /\ q.num * count = total * q.den

Greater(p, q) == Sign(p, q) > 0

\* the position in responses of the response an aggregated entry was made from
PositionOf(entry) == CHOOSE i \in DOMAIN eResponses : eResponses[i].response = entry.response

LeftOut == {k \in DOMAIN ePayload.averageScores :
               \A t \in DOMAIN ePayload.topThree :
                   ePayload.topThree[t].response # ePayload.averageScores[k].response}

\* C3: for every response the reported avgScore is the arithmetic mean (sum
\* divided by count) of the scores collected for its model, the scores list
\* holds them in evaluator processing order, and with no score collected
\* avgScore is the number 0.
Thm_C3_AverageIsMean ==
    EvalOk =>
        \A k \in DOMAIN ePayload.averageScores :
            LET e == ePayload.averageScores[k]
            IN  /\ e.scores = ScoresGivenTo(e.model, ePayload.evaluations)
                /\ IsNumber(e.avgScore)
                /\ e.scores # <<>> => IsQuotientOf(e.avgScore, Sum(e.scores), Len(e.scores))
                /\ e.scores = <<>> => e.avgScore = Zero

\* one model was given 80, 90 and 100 by three evaluators in turn and averages
\* exactly 90; another model was given no score and averages 0
Wit_C3 ==
    /\ EvalOk
    /\ \E k \in DOMAIN ePayload.averageScores :
          /\ ePayload.averageScores[k].scores = <<80, 90, 100>>
          /\ ePayload.averageScores[k].avgScore = [num |-> 90, den |-> 1]
    /\ \E k \in DOMAIN ePayload.averageScores :
          /\ ePayload.averageScores[k].scores = <<>>
          /\ ePayload.averageScores[k].avgScore = Zero

\* C4 as stated: of 5 aggregated entries the top-three selection returns
\* exactly 3, their avgScore strictly descending, and no entry left out has an
\* avgScore greater than the third.
Cex_C4_StrictlyDescending ==
    (EvalOk /\ Len(eResponses) = 5) =>
        /\ Len(ePayload.topThree) = 3
        /\ \A t \in 1..2 : Greater(ePayload.topThree[t].avgScore, ePayload.topThree[t + 1].avgScore)
        /\ \A k \in LeftOut :
              ~Greater(ePayload.averageScores[k].avgScore, ePayload.topThree[3].avgScore)

\* C4 (amended): of 5 aggregated entries the top-three selection returns
\* exactly 3, their avgScore descending with equal values allowed (no entry
\* has a smaller avgScore than the entry after it), and no entry left out has
\* an avgScore greater than the third.
Thm_C4_Descending ==
    (EvalOk /\ Len(eResponses) = 5) =>
        /\ Len(ePayload.topThree) = 3
        /\ \A t \in 1..2 : ~Greater(ePayload.topThree[t + 1].avgScore, ePayload.topThree[t].avgScore)
        /\ \A k \in LeftOut :
              ~Greater(ePayload.averageScores[k].avgScore, ePayload.topThree[3].avgScore)

\* 5 entries whose order the sort changed: the first of responses is left out,
\* the top three hold a strict step and the left out entries score less
Wit_C4 ==
    /\ EvalOk
    /\ Len(eResponses) = 5
    /\ Len(ePayload.topThree) = 3
    /\ Greater(ePayload.topThree[1].avgScore, ePayload.topThree[2].avgScore)
    /\ \E k \in LeftOut : PositionOf(ePayload.averageScores[k]) = 1
    /\ \A k \in LeftOut :
          Greater(ePayload.topThree[3].avgScore, ePayload.averageScores[k].avgScore)

\* C5: entries with equal avgScore keep the order of responses: of two tied
\* entries of topThree the one earlier in responses comes first, and when an
\* entry left out ties with an entry of topThree, the one in topThree is the
\* one earlier in responses.
Thm_C5_TiesKeepResponseOrder ==
    EvalOk =>
        /\ \A t, u \in DOMAIN ePayload.topThree :
              (t < u /\ ePayload.topThree[t].avgScore = ePayload.topThree[u].avgScore)
                  => PositionOf(ePayload.topThree[t]) < PositionOf(ePayload.topThree[u])
        /\ \A k \in LeftOut : \A t \in DOMAIN ePayload.topThree :
              ePayload.averageScores[k].avgScore = ePayload.topThree[t].avgScore
                  => PositionOf(ePayload.topThree[t]) < PositionOf(ePayload.averageScores[k])

\* a tie across the cut-off: the sort moved an entry to the front, two entries
\* of topThree tie, and an entry left out ties with the third
Wit_C5 ==
    /\ EvalOk
    /\ Len(ePayload.topThree) = 3
    /\ PositionOf(ePayload.topThree[1]) # 1
    /\ ePayload.topThree[2].avgScore = ePayload.topThree[3].avgScore
    /\ \E k \in LeftOut : ePayload.averageScores[k].avgScore = ePayload.topThree[3].avgScore

\* the reply of evaluator i holds no JSON object, or its extracted text does
\* not parse
ReplyWithoutJSON(i) ==
    /\ eOutcome[i].kind = "text"
    /\ \/ RegexMatch(eOutcome[i].text) = NoMatch
       \/ ~JSONParse(RegexMatch(eOutcome[i].text)).ok

\* C6: for an evaluator whose reply holds no JSON object, or whose extracted
\* text fails to parse, evaluateWithModel raises nothing and returns an empty
\* scores list together with a recorded error string; the other evaluators'
\* results are what their own replies give.
Cex_C6_EmptyScoresAndError ==
    \A i \in DOMAIN eOutcome :
        /\ ReplyWithoutJSON(i) =>
              /\ evaluations[i].evaluator = eResponses[i].model
              /\ Get(evaluations[i].evaluation, "scores") = JArr(<<>>)
              /\ Get(evaluations[i].evaluation, "error").t = "str"
        /\ (eOutcome[i].kind = "text" /\ ~ReplyWithoutJSON(i) /\ eResponses[i].model \in ModelIds) =>
              evaluations[i].evaluation = JSONParse(RegexMatch(eOutcome[i].text)).v

\* C7: whatever the evaluators and the referee reply, an Evaluate call over a
\* well-formed request returns the success payload, never the server-error
\* payload.
Cex_C7_NeverServerError ==
    EvalDone => ePayload.status = 200

\* an evaluation whose scores field the two loops can walk
WellShaped(ev) ==
    LET scores == Get(ev.evaluation, "scores")
    IN  \/ ~Truthy(scores)
        \/ scores.t = "arr" /\ \A j \in DOMAIN scores.items : scores.items[j].t # "null"

\* C9: the models of averageScores are exactly the models of responses, and a
\* score given to an id that no response carries is dropped: each model's
\* scores list holds as many scores as the evaluators gave entries naming that
\* model, and such an entry causes no error (the call fails only for an
\* evaluation that is not well shaped).
Thm_C9_UnknownModelDropped ==
    /\ EvalOk =>
          /\ Len(ePayload.averageScores) = Len(eResponses)
          /\ {ePayload.averageScores[k].model : k \in DOMAIN ePayload.averageScores}
                = {eResponses[i].model : i \in DOMAIN eResponses}
          /\ \A k \in DOMAIN ePayload.averageScores :
                Len(ePayload.averageScores[k].scores)
                    = Len(SelectSeq(ScoreItems(ePayload.evaluations),
                                    LAMBDA item : Names(item, ePayload.averageScores[k].model)))
    /\ (EvalDone /\ \A i \in DOMAIN evaluations : WellShaped(evaluations[i])) => ePayload.status = 200

\* an evaluator scored an id no response carries, and the call succeeded with
\* scores collected for the models of the responses
Wit_C9 ==
    /\ EvalOk
    /\ \E k \in DOMAIN ScoreItems(ePayload.evaluations) :
          Names(ScoreItems(ePayload.evaluations)[k], GhostId)
    /\ \E k \in DOMAIN ePayload.averageScores : ePayload.averageScores[k].scores # <<>>

\* the ranking is the entries' ranks 1..k, each once, over the top models
IsRankingOf(ranking, top) ==
    /\ ranking.t = "arr"
    /\ Len(ranking.items) = Len(top)
    /\ \A r \in 1..Len(top) :
          Cardinality({j \in DOMAIN ranking.items : Get(ranking.items[j], "rank") = JNum(r)}) = 1
    /\ \A j \in DOMAIN ranking.items :
          \E t \in DOMAIN top : Get(ranking.items[j], "model") = JStr(top[t].model)

\* C10: the final ranking over the k top entries is either a ranking of
\* exactly k entries, ranks 1..k each given once, each naming a top model, or
\* an empty ranking together with an error marker; the ranking step raises
\* nothing and is made by the one fixed referee model.
Cex_C10_RankingOrErrorMarker ==
    EvalOk =>
        /\ refModel = RefereeModel
        /\ \/ IsRankingOf(Get(ePayload.finalRanking, "ranking"), ePayload.topThree)
           \/ /\ Get(ePayload.finalRanking, "ranking") = JArr(<<>>)
              /\ Get(ePayload.finalRanking, "error").t = "str"

\* C13: selecting the top three leaves averageScores as it was built: in the
\* returned payload averageScores has one entry per input response, in the
\* order of the input responses, whatever the scores are.
Cex_C13_AverageScoresInResponseOrder ==
    EvalOk =>
        /\ Len(ePayload.averageScores) = Len(eResponses)
        /\ \A i \in DOMAIN eResponses :
              /\ ePayload.averageScores[i].model = eResponses[i].model
              /\ ePayload.averageScores[i].response = eResponses[i].response

-----------------------------------------------------------------------------
(* Claims about the page component *)

\* the step sends a generate request / an evaluate request
GenerateSent == ~genRequest.sent /\ genRequest'.sent

EvaluateSent == ~evalRequest.sent /\ evalRequest'.sent

\* the phases of a run, read off the state
Generating == loading

Generated == ~loading /\ Len(responses) >= 1

Evaluating == evaluating

\* C11: a generate request is sent only from a state with at least 4 models
\* selected and a prompt holding a character that is not a blank, and it
\* carries that selection and prompt; an evaluate request is sent only from a
\* state holding at least one generated response, and it carries the responses
\* held.  Responses come to be held only as a generate request completes, and
\* Evaluating is entered only from Generated, by sending an evaluate request:
\* a run passes through Generating and Generated before it enters Evaluating.
Thm_C11_RequestsSentWhenAllowed ==
    [][ /\ GenerateSent =>
              /\ Len(selectedModels) >= 4
              /\ \E i \in DOMAIN prompt : prompt[i] # Blank
              /\ genRequest'.models = selectedModels
              /\ genRequest'.prompt = prompt
              /\ Generating'
        /\ EvaluateSent =>
              /\ Generated
              /\ evalRequest'.responses = responses
        /\ (responses = <<>> /\ responses' # <<>>) =>
              /\ Generating /\ genRequest.sent
              /\ Generated'
        /\ (~Evaluating /\ Evaluating') => (Generated /\ EvaluateSent)
      ]_vars

\* a generate request of 5 models sent while the evaluate request for 4
\* generated responses is pending
Wit_C11 ==
    /\ genRequest.sent /\ Len(genRequest.models) = 5
    /\ genRequest.prompt = <<Blank, "g", Blank>>
    /\ evalRequest.sent /\ Len(evalRequest.responses) = 4
    /\ Generating /\ Evaluating

\* C12: whenever an evaluation is held together with a non-empty responses
\* list, the evaluation is a reply of the Evaluate handler to exactly that
\* list: no evaluation of an earlier generation stands next to the responses
\* of a later one.
Cex_C12_EvaluationOfResponsesHeld ==
    (evaluation # NoEvaluation /\ responses # <<>>) =>
        evaluation \in EvaluateReplies[responses]

-----------------------------------------------------------------------------
(* Claims about the reply parser *)

\* the text after the embedded object: the object starts at the first opening
\* brace of the reply
TextAfterEmbedded ==
    LET start == Min(Positions(pText, "{"))
    IN  SubSeq(pText, start + Len(Serialize(pEmbedded)), Len(pText))

\* C8: for a reply made of prose, one balanced JSON object and prose again
\* (prose that may hold braces or a further JSON object), the parsing step
\* returns that first embedded object unchanged.
Cex_C8_FirstObjectExtracted ==
    pPc = "parsed" => pResult = pEmbedded

\* What holds instead: the embedded object comes back unchanged whenever no
\* closing brace follows it in the reply.
Lemma_ExtractedWhenNoBraceFollows ==
    (pPc = "parsed" /\ Positions(TextAfterEmbedded, "}") = {}) => pResult = pEmbedded

-----------------------------------------------------------------------------

IdleG ==
    /\ gPc = "idle" /\ gModels = <<>> /\ gOutcome = <<>> /\ gSlots = <<>>
    /\ gPayload = NoPayload

IdleE ==
    /\ ePc = "idle" /\ eResponses = <<>> /\ eOutcome = <<>> /\ evaluations = <<>>
    /\ averageScores = <<>> /\ topThree = <<>> /\ refOutcome = NoOutcome
    /\ refModel = "" /\ ePayload = NoEvalPayload

IdleP ==
    /\ pPc = "idle" /\ pText = <<>> /\ pEmbedded = <<>> /\ pMatch = <<>> /\ pResult = <<>>

\* the initial values of Home's useState cells; no request in flight
IdleH ==
    /\ selectedModels = <<>> /\ prompt = <<>> /\ images = <<>>
    /\ loading = FALSE /\ evaluating = FALSE
    /\ responses = <<>> /\ evaluation = NoEvaluation /\ userChoice = ""
    /\ genRequest = NoGenRequest /\ evalRequest = NoEvalRequest

Init == IdleG /\ IdleE /\ IdleP /\ IdleH

SpecGen == Init /\ [][GenNext]_vars

SpecEval == Init /\ [][EvalNext]_vars

InitParse == IdleG /\ IdleE /\ ParserInit /\ IdleH

SpecParse == InitParse /\ [][ParserNext]_vars

SpecHome == Init /\ [][HomeNext]_vars

====
